---- MODULE Spec2Model ----
(***************************************************************************)
(* A model of stacked_renet_layer_slim.py: the ReNetLayer module.          *)
(*                                                                         *)
(* Tensors are records [err, shape, data]: shape is the sequence of the    *)
(* dimension sizes and data the function from indices to elements.         *)
(* Indices are 0-based as in the source.  A failed operation is the        *)
(* record Error(name); operations propagate it like a raised exception.    *)
(*                                                                         *)
(* Element values are tracked symbolically: an element is the set of the   *)
(* sources its value is computed from.  A source is either an entry of an  *)
(* input tensor, Src(id, shape, index) >= 0, or a draw of the random       *)
(* generator, RngSrc(seed) < 0.  The constant 0 is the empty set.  The     *)
(* weights are fixed and dense, so they add no source.                     *)
(***************************************************************************)
EXTENDS Integers, Sequences, FiniteSets, TLC

\* ------------------------------------------------------------------------
\* Bounds
MaxBatch == 2
MaxChannels == 2
MaxSide == 4
MaxWindow == 2
MaxHidden == 2
MaxStack == 3
MaxFwdStack == 2
MaxGrid == 2
MaxRepSide == 2
MaxRepStack == 2
MaxSeed == 1

\* ------------------------------------------------------------------------
\* Tensor primitives used by the layer

RECURSIVE Prod(_)
Prod(s) ==
    IF s = <<>> THEN 1 ELSE Head(s) * Prod(Tail(s))

\* Strides(shape)[k]: the number of elements one step along axis k skips
RECURSIVE Strides(_)
Strides(shape) ==
    IF shape = <<>> THEN <<>>
    ELSE <<Prod(Tail(shape))>> \o Strides(Tail(shape))

\* the row-major position (0-based) of the element at idx
Ravel(shape, idx) ==
    LET pos[k \in 0..Len(shape)] ==
            IF k = 0 THEN 0 ELSE pos[k - 1] * shape[k] + idx[k]
    IN  pos[Len(shape)]

\* the index of the element at row-major position n (0-based)
\* st is Strides(shape)
UnravelBy(st, shape, n) ==
    SubSeq([k \in 1..Len(shape) |-> (n \div st[k]) % shape[k]],
           1, Len(shape))

Unravel(shape, n) ==
    UnravelBy(Strides(shape), shape, n)

\* all indices of a tensor of the given shape (of rank at most 6)
Indices(shape) ==
    LET I(k) == 0..(shape[k] - 1)
    IN  CASE Len(shape) = 0 -> {<<>>}
          [] Len(shape) = 1 -> {<<i>> : i \in I(1)}
          [] Len(shape) = 2 -> I(1) \X I(2)
          [] Len(shape) = 3 -> I(1) \X I(2) \X I(3)
          [] Len(shape) = 4 -> I(1) \X I(2) \X I(3) \X I(4)
          [] Len(shape) = 5 -> I(1) \X I(2) \X I(3) \X I(4) \X I(5)
          [] Len(shape) = 6 -> I(1) \X I(2) \X I(3) \X I(4) \X I(5) \X I(6)

Error(e) ==
    [err |-> e, shape |-> <<>>, data |-> <<>>]

IsError(t) ==
    t.err # ""

\* the tensor of the given shape whose element at index idx is F(idx)
MkTensor(shape, F(_)) ==
    [err |-> "", shape |-> shape,
     data |-> [idx \in Indices(shape) |-> F(idx)] @@ <<>>]

At(t, idx) ==
    t.data[idx]

\* torch.zeros(shape)
Zeros(shape) ==
    MkTensor(shape, LAMBDA idx : {})

\* Tensor.permute(dims): axis i of the result is axis dims[i] of t
Permute(t, dims) ==
    IF IsError(t) THEN t
    ELSE IF Len(dims) # Len(t.shape) THEN Error("RuntimeError")
    ELSE LET r == Len(dims)
             inv == SubSeq([k \in 1..r |->
                        CHOOSE i \in 1..r : dims[i] = k - 1], 1, r)
         IN  MkTensor([i \in 1..r |-> t.shape[dims[i] + 1]],
                      LAMBDA idx :
                          At(t, SubSeq([k \in 1..r |-> idx[inv[k]]], 1, r)))

\* Tensor.unfold(dim, size, step): all complete windows of `size` taken
\* every `step` along dim; the window axis is appended as the last axis.
\* Fails only when size exceeds the dimension.
Unfold(t, dim, size, step) ==
    IF IsError(t) THEN t
    ELSE IF size > t.shape[dim + 1] THEN Error("RuntimeError")
    ELSE LET n == (t.shape[dim + 1] - size) \div step + 1
             r == Len(t.shape)
         IN  MkTensor([t.shape EXCEPT ![dim + 1] = n] \o <<size>>,
                      LAMBDA idx : At(t, SubSeq([k \in 1..r |->
                          IF k = dim + 1 THEN idx[k] * step + idx[r + 1]
                          ELSE idx[k]], 1, r)))

\* Tensor.contiguous().view(shape): the elements in row-major order under
\* a new shape; one entry of shape may be -1 and is inferred.
View(t, shape) ==
    IF IsError(t) THEN t
    ELSE LET known == Prod([k \in 1..Len(shape) |->
                            IF shape[k] = -1 THEN 1 ELSE shape[k]])
             s == [k \in 1..Len(shape) |->
                   IF shape[k] = -1 THEN Prod(t.shape) \div known
                   ELSE shape[k]]
         IN  IF Prod(s) # Prod(t.shape) THEN Error("RuntimeError")
             ELSE LET st == Strides(t.shape)
                  IN  MkTensor(s, LAMBDA idx :
                          At(t, UnravelBy(st, t.shape, Ravel(s, idx))))

Narrow(t, dim, start, len) ==
    MkTensor([t.shape EXCEPT ![dim + 1] = len],
             LAMBDA idx : At(t, [idx EXCEPT ![dim + 1] = @ + start]))

\* torch.split(t, size, dim): consecutive chunks of `size` along dim,
\* the last one smaller when size does not divide the dimension.
Split(t, size, dim) ==
    IF IsError(t) THEN <<t>>
    ELSE
    LET d == t.shape[dim + 1]
        n == (d + size - 1) \div size
    IN  SubSeq([i \in 1..n |->
            Narrow(t, dim, (i - 1) * size,
                   IF i * size <= d THEN size ELSE d - (i - 1) * size)],
            1, n)

\* the start, along dim, of every chunk of ts in their concatenation,
\* followed by the total length
RECURSIVE CatOffsets(_, _, _)
CatOffsets(ts, dim, from) ==
    IF ts = <<>> THEN <<from>>
    ELSE <<from>> \o CatOffsets(Tail(ts), dim,
                                from + Head(ts).shape[dim + 1])

\* torch.cat(ts, dim): the chunks one after the other along dim
Cat(ts, dim) ==
    IF \E i \in 1..Len(ts) : IsError(ts[i])
    THEN Error("RuntimeError")
    ELSE IF \E i \in 1..Len(ts) :
              \/ Len(ts[i].shape) # Len(ts[1].shape)
              \/ \E k \in 1..Len(ts[1].shape) :
                     k # dim + 1 /\ ts[i].shape[k] # ts[1].shape[k]
    THEN Error("RuntimeError")
    ELSE LET off == CatOffsets(ts, dim, 0)
             chunk == SubSeq([p \in 1..off[Len(ts) + 1] |->
                          CHOOSE i \in 1..Len(ts) :
                              off[i] <= p - 1 /\ p - 1 < off[i + 1]],
                          1, off[Len(ts) + 1])
         IN  MkTensor([ts[1].shape EXCEPT ![dim + 1] = off[Len(ts) + 1]],
                      LAMBDA idx :
                          At(ts[chunk[idx[dim + 1] + 1]],
                             [idx EXCEPT ![dim + 1] =
                                 @ - off[chunk[idx[dim + 1] + 1]]]))

\* t[i]: the i-th slice along the leading axis
Select(t, i) ==
    IF IsError(t) THEN t
    ELSE MkTensor(Tail(t.shape), LAMBDA idx : At(t, <<i>> \o idx))

\* the source that stands for entry idx of the input tensor `id` of the
\* given shape: sources are numbered id * 1000 + row-major position
Src(id, shape, idx) ==
    id * 1000 + Ravel(shape, idx)

\* a draw of the random generator in state `seed`
RngSrc(seed) ==
    0 - 1 - seed

\* An input tensor of the given shape: every entry is its own source
Input(id, shape) ==
    MkTensor(shape, LAMBDA idx : {Src(id, shape, idx)})

\* ------------------------------------------------------------------------
\* torch.nn.RNN / GRU / LSTM as the layer configures them
\* (bidirectional=True, batch_first=True)

RnnKinds == {"RNN", "GRU", "LSTM"}
Dropouts == {0, 50}          \* percent; 0 is the default
Seeds == 0..MaxSeed                \* states of the global random generator

LayerTok(l) ==
    <<"l0", "l1", "l2", "l3", "l4", "l5">>[l + 1]

\* the parameter names of one (layer, direction) of a recurrent network,
\* as token sequences: weight_ih_l0, weight_hh_l0_reverse, bias_ih_l0, ...
ParamNames(l, d, bias) ==
    LET suffix == IF d = 1 THEN <<"reverse">> ELSE <<>>
        w == << <<"weight", "ih", LayerTok(l)>> \o suffix,
                <<"weight", "hh", LayerTok(l)>> \o suffix >>
        b == << <<"bias", "ih", LayerTok(l)>> \o suffix,
                <<"bias", "hh", LayerTok(l)>> \o suffix >>
    IN  IF bias THEN w \o b ELSE w

\* getattr(nn, rnn_type)(input_size, hidden_size, bidirectional=True,
\*     batch_first=True, num_layers=..., dropout=..., bias=...)
\* all_weights lists the names per layer and direction; inits counts, per
\* name, the applications of an initialization function after the
\* network's own default initialization.
NewRNN(mode, input_size, hidden_size, num_layers, dropout, bias) ==
    LET groups == [g \in 1..(2 * num_layers) |->
                      ParamNames((g - 1) \div 2, (g - 1) % 2, bias)]
    IN  [mode |-> mode, input_size |-> input_size,
         hidden_size |-> hidden_size, num_layers |-> num_layers,
         dropout |-> dropout, bias |-> bias,
         all_weights |-> groups,
         inits |-> [g \in 1..(2 * num_layers) |->
                       [j \in 1..Len(groups[g]) |-> 0]]]

NoRNN ==
    [mode |-> "", input_size |-> 0, hidden_size |-> 0, num_layers |-> 0,
     dropout |-> 0, bias |-> FALSE, all_weights |-> <<>>, inits |-> <<>>]

\* one recurrent cell step: the new hidden value is computed from the
\* step's input and the previous hidden value
RECURSIVE ScanFwd(_, _)
ScanFwd(seq, h) ==
    IF seq = <<>> THEN <<>>
    ELSE <<Head(seq) \cup h>> \o ScanFwd(Tail(seq), Head(seq) \cup h)

Reverse(seq) ==
    [i \in 1..Len(seq) |-> seq[Len(seq) + 1 - i]]

ScanBwd(seq, h) ==
    Reverse(ScanFwd(Reverse(seq), h))

\* the stacked bidirectional layers over one sequence; h0[2l+d+1] is what
\* the initial state of layer l, direction d is computed from.  Returns
\* <<forward outputs, backward outputs>> of the last layer.  Dropout acts
\* on the outputs of every layer but the last.
RECURSIVE RowStack(_, _, _, _, _)
RowStack(seq, h0, l, num_layers, drop) ==
    LET f == ScanFwd(seq, h0[2 * l + 1])
        b == ScanBwd(seq, h0[2 * l + 2])
    IN  IF l + 1 >= num_layers THEN <<f, b>>
        ELSE RowStack([t \in 1..Len(seq) |-> f[t] \cup b[t] \cup drop],
                      h0, l + 1, num_layers, drop)

\* rnn(input, hx) in the given mode: input is (batch, seq, feature), hx a
\* sequence <<h0>> or <<h0, c0>>; returns the output (batch, seq, 2*hidden)
RNNForward(rnn, input, hx, training, seed) ==
    IF IsError(input) THEN input
    ELSE IF Len(input.shape) # 3 \/ input.shape[3] # rnn.input_size
    THEN Error("RuntimeError")
    ELSE IF Len(hx) # (IF rnn.mode = "LSTM" THEN 2 ELSE 1)
    THEN Error("RuntimeError")
    ELSE IF \E i \in 1..Len(hx) :
              hx[i].shape # <<2 * rnn.num_layers, input.shape[1],
                              rnn.hidden_size>>
    THEN Error("RuntimeError")
    ELSE LET N == input.shape[1]
             T == input.shape[2]
             H == rnn.hidden_size
             drop == IF training /\ rnn.dropout > 0 /\ rnn.num_layers > 1
                     THEN {RngSrc(seed)} ELSE {}
             row(n) == [t \in 1..T |->
                 UNION {At(input, <<n, t - 1, f>>) :
                            f \in 0..(rnn.input_size - 1)}]
             h0(n) == [g \in 1..(2 * rnn.num_layers) |->
                 UNION {At(hx[i], <<g - 1, n, k>>) :
                            i \in 1..Len(hx), k \in 0..(H - 1)}]
             rows == SubSeq([n \in 1..N |->
                         RowStack(row(n - 1), h0(n - 1), 0,
                                  rnn.num_layers, drop)], 1, N)
         IN  MkTensor(<<N, T, 2 * H>>,
                      LAMBDA idx :
                          rows[idx[1] + 1][idx[3] \div H + 1][idx[2] + 1])

\* ------------------------------------------------------------------------
\* ReNetLayer

\* a Python value passed as window_size: an int n is [tuple |-> FALSE,
\* v |-> <<n>>], a tuple (h, w) is [tuple |-> TRUE, v |-> <<h, w>>]
PyInt(n) == [tuple |-> FALSE, v |-> <<n>>]
PyTuple(h, w) == [tuple |-> TRUE, v |-> <<h, w>>]

NoLayer ==
    [err |-> "unbuilt", window_size |-> <<>>, rnn_type |-> "",
     hidden_dim |-> 0, stack_size |-> <<>>, firstVRNN |-> NoRNN,
     secondHRNN |-> NoRNN, training |-> FALSE]

\* 'weight' in p
HasWeight(p) ==
    \E i \in 1..Len(p) : p[i] = "weight"

\* fn applied to the named parameters of one recurrent network
ApplyToRNN(rnn) ==
    [rnn EXCEPT !.inits =
        [g \in 1..Len(rnn.all_weights) |->
            [j \in 1..Len(rnn.all_weights[g]) |->
                IF HasWeight(rnn.all_weights[g][j])
                THEN rnn.inits[g][j] + 1 ELSE rnn.inits[g][j]]]]

\* apply that initializes the first sweep only
apply_first_only(self) ==
    [self EXCEPT !.firstVRNN = ApplyToRNN(self.firstVRNN)]

\* ReNetLayer.apply(fn)
apply(self) ==
    [self EXCEPT !.firstVRNN = ApplyToRNN(self.firstVRNN),
                 !.secondHRNN = ApplyToRNN(self.secondHRNN)]

\* ReNetLayer.__init__(window_size, hidden_dim, rnn, stack_size,
\*                     channel_size, bias, dropout)
\* window_size[0] * window_size[1] multiplies the argument by itself: two
\* ints multiply, two tuples raise TypeError.
ReNetLayer(a) ==
    IF a.window_size.tuple
    THEN [NoLayer EXCEPT !.err = "TypeError"]
    ELSE apply(
        [err |-> "",
         window_size |-> <<a.window_size, a.window_size>>,
         rnn_type |-> a.rnn,
         hidden_dim |-> a.hidden_dim,
         stack_size |-> a.stack_size,
         firstVRNN |-> NewRNN(a.rnn,
             a.window_size.v[1] * a.window_size.v[1] * a.channel_size,
             a.hidden_dim, a.stack_size[1], a.dropout, a.bias),
         secondHRNN |-> NewRNN(a.rnn, 2 * a.hidden_dim, a.hidden_dim,
             a.stack_size[2], a.dropout, a.bias),
         training |-> TRUE])

\* get_init_hidden that fills the state with random values
get_init_hidden_random(self, t, stack_size) ==
    LET r == MkTensor(<<2 * stack_size, t.shape[2], self.hidden_dim>>,
                      LAMBDA idx : {RngSrc(0)})
    IN  IF self.rnn_type = "LSTM" THEN <<r, r>> ELSE <<r>>

\* get_init_hidden sized for one direction only
get_init_hidden_one_way(self, t, stack_size) ==
    IF self.rnn_type = "LSTM"
    THEN <<Zeros(<<stack_size, t.shape[2], self.hidden_dim>>),
           Zeros(<<stack_size, t.shape[2], self.hidden_dim>>)>>
    ELSE <<Zeros(<<stack_size, t.shape[2], self.hidden_dim>>)>>

\* ReNetLayer.get_init_hidden(x, stack_size)
get_init_hidden(self, t, stack_size) ==
    IF self.rnn_type = "LSTM"
    THEN <<Zeros(<<2 * stack_size, t.shape[2], self.hidden_dim>>),
           Zeros(<<2 * stack_size, t.shape[2], self.hidden_dim>>)>>
    ELSE <<Zeros(<<2 * stack_size, t.shape[2], self.hidden_dim>>)>>

\* apply_one_direction that regroups the output in chunks of the sweep
\* length instead of the batch size
apply_one_direction_regrouped(self, t, rnn, stack_size, seed) ==
    IF IsError(t) THEN [out |-> t, hn |-> <<>>, fed |-> t]
    ELSE LET in0 == Cat(Split(t, 1, 0), 1)
             hn == get_init_hidden(self, in0, stack_size)
             fed == Select(in0, 0)
             o == RNNForward(rnn, fed, hn, self.training, seed)
             o4 == View(o, <<1, o.shape[1], o.shape[2], o.shape[3]>>)
         IN  [out |-> IF IsError(o) THEN o
                      ELSE Cat(Split(o4, t.shape[1], 1), 0),
              hn |-> hn, fed |-> fed]

\* ReNetLayer.apply_one_direction(x, rnn, stack_size); besides the result
\* `out` the record keeps the initial state `hn` and the tensor `fed` to
\* the recurrent network.
apply_one_direction(self, t, rnn, stack_size, seed) ==
    IF IsError(t) THEN [out |-> t, hn |-> <<>>, fed |-> t]
    ELSE LET in0 == Cat(Split(t, 1, 0), 1)
             hn == get_init_hidden(self, in0, stack_size)
             fed == Select(in0, 0)
             o == RNNForward(rnn, fed, hn, self.training, seed)
             o4 == View(o, <<1, o.shape[1], o.shape[2], o.shape[3]>>)
         IN  [out |-> IF IsError(o) THEN o
                      ELSE Cat(Split(o4, t.shape[2], 1), 0),
              hn |-> hn, fed |-> fed]

\* get_valid_patches with windows taken at every row and column
get_valid_patches_overlapping(self, t) ==
    LET wh == self.window_size[1].v[1]
        ww == self.window_size[2].v[1]
        p == Permute(Unfold(Unfold(t, 2, wh, 1), 3, ww, 1),
                     <<0, 2, 3, 1, 4, 5>>)
    IN  IF IsError(p) THEN p
        ELSE Permute(View(p, <<p.shape[1], p.shape[2], p.shape[3], -1>>),
                     <<0, 3, 1, 2>>)

\* get_valid_patches that rejects a height or width the window does not
\* divide
get_valid_patches_strict(self, t) ==
    LET wh == self.window_size[1].v[1]
        ww == self.window_size[2].v[1]
        p == Permute(Unfold(Unfold(t, 2, wh, wh), 3, ww, ww),
                     <<0, 2, 3, 1, 4, 5>>)
    IN  IF IsError(p) THEN p
        ELSE IF t.shape[3] % wh # 0 \/ t.shape[4] % ww # 0
        THEN Error("RuntimeError")
        ELSE Permute(View(p, <<p.shape[1], p.shape[2], p.shape[3], -1>>),
                     <<0, 3, 1, 2>>)

\* ReNetLayer.get_valid_patches(x)
get_valid_patches(self, t) ==
    LET wh == self.window_size[1].v[1]
        ww == self.window_size[2].v[1]
        p == Permute(Unfold(Unfold(t, 2, wh, wh), 3, ww, ww),
                     <<0, 2, 3, 1, 4, 5>>)
    IN  IF IsError(p) THEN p
        ELSE Permute(View(p, <<p.shape[1], p.shape[2], p.shape[3], -1>>),
                     <<0, 3, 1, 2>>)

\* forward without the last permute
forward_unpermuted(self, t, seed) ==
    LET patches == get_valid_patches(self, t)
        input_array == Permute(patches, <<2, 0, 3, 1>>)
        v == apply_one_direction(self, input_array, self.firstVRNN,
                                 self.stack_size[1], seed)
        vertical_results == Permute(v.out, <<2, 1, 0, 3>>)
        h == apply_one_direction(self, vertical_results, self.secondHRNN,
                                 self.stack_size[2], seed)
    IN  [out |-> h.out,
         hn |-> <<v.hn, h.hn>>, fed |-> <<v.fed, h.fed>>]

\* forward whose second sweep is applied to the unswapped first result,
\* so that both sweeps run along the same axis
forward_unswapped(self, t, seed) ==
    LET patches == get_valid_patches(self, t)
        input_array == Permute(patches, <<2, 0, 3, 1>>)
        v == apply_one_direction(self, input_array, self.firstVRNN,
                                 self.stack_size[1], seed)
        h == apply_one_direction(self, v.out, self.secondHRNN,
                                 self.stack_size[2], seed)
    IN  [out |-> Permute(h.out, <<1, 3, 0, 2>>),
         hn |-> <<v.hn, h.hn>>, fed |-> <<v.fed, h.fed>>]

\* ReNetLayer.forward(x); `hn` and `fed` collect those of the two sweeps
forward(self, t, seed) ==
    LET patches == get_valid_patches(self, t)
        input_array == Permute(patches, <<2, 0, 3, 1>>)
        v == apply_one_direction(self, input_array, self.firstVRNN,
                                 self.stack_size[1], seed)
        vertical_results == Permute(v.out, <<2, 1, 0, 3>>)
        h == apply_one_direction(self, vertical_results, self.secondHRNN,
                                 self.stack_size[2], seed)
    IN  [out |-> Permute(h.out, <<1, 3, 2, 0>>),
         hn |-> <<v.hn, h.hn>>, fed |-> <<v.fed, h.fed>>]

\* ------------------------------------------------------------------------
\* State
\*   args   the constructor's arguments
\*   layer  the ReNetLayer instance (NoLayer before construction)
\*   x      the tensor the caller passes, as [id, shape]
\*   op     the operation that has run on x ("none": not called yet)
\*   ret    what the operation returned
\*   hn     the initial states created during the operation, in order
\*   fed    the tensors handed to the recurrent networks, in order
\*   drop   whether dropout was active during the operation
\*   ref    the first forward call made on the layer: input, result, drop

VARIABLES args, layer, x, op, ret, hn, fed, drop, ref
vars == <<args, layer, x, op, ret, hn, fed, drop, ref>>

NoInput == [id |-> -1, shape |-> <<>>]
NoRef == [x |-> NoInput, out |-> Error("none"), drop |-> FALSE]

WindowArgs ==
    {PyInt(n) : n \in 1..MaxWindow}
        \cup {PyTuple(h, w) : h \in 1..MaxWindow, w \in 1..MaxWindow}

CtorArgs ==
    [window_size : WindowArgs, hidden_dim : 1..MaxHidden, rnn : RnnKinds,
     stack_size : (1..MaxStack) \X (1..MaxStack),
     channel_size : 1..MaxChannels, bias : BOOLEAN, dropout : Dropouts]

\* the arguments with which construction succeeds; bias does not enter
\* the computation and is left at its default
LayerArgs ==
    {a \in CtorArgs : ~a.window_size.tuple /\ a.bias}

Images ==
    {[id |-> 0, shape |-> <<b, c, h, w>>] :
        b \in 1..MaxBatch, c \in 1..MaxChannels,
        h \in 1..MaxSide, w \in 1..MaxSide}

\* whether a forward pass of the layer draws dropout masks
DropoutActive(self) ==
    /\ self.training
    /\ \/ self.firstVRNN.dropout > 0 /\ self.firstVRNN.num_layers > 1
       \/ self.secondHRNN.dropout > 0 /\ self.secondHRNN.num_layers > 1

Idle ==
    /\ op = "none"
    /\ ret = Error("none")
    /\ hn = <<>>
    /\ fed = <<>>
    /\ drop = FALSE
    /\ ref = NoRef

\* layer = ReNetLayer(window_size, hidden_dim, rnn, ...)
Construct ==
    /\ layer.err = "unbuilt"
    /\ layer' = ReNetLayer(args)
    /\ op' = "construct"
    /\ UNCHANGED <<args, x, ret, hn, fed, drop, ref>>

\* layer.get_valid_patches(x)
GetValidPatches ==
    /\ layer.err = ""
    /\ op = "none"
    /\ op' = "get_valid_patches"
    /\ ret' = get_valid_patches(layer, Input(x.id, x.shape))
    /\ UNCHANGED <<args, layer, x, hn, fed, drop, ref>>

\* layer(x)
Forward ==
    /\ layer.err = ""
    /\ op = "none"
    /\ \E seed \in IF DropoutActive(layer) THEN Seeds ELSE {0} :
        \E r \in {forward(layer, Input(x.id, x.shape), seed)} :
            /\ op' = "forward"
            /\ ret' = r.out
            /\ hn' = r.hn
            /\ fed' = r.fed
            /\ drop' = DropoutActive(layer)
            /\ ref' = IF ref = NoRef
                      THEN [x |-> x, out |-> r.out,
                            drop |-> DropoutActive(layer)]
                      ELSE ref
    /\ UNCHANGED <<args, layer, x>>

\* layer.apply_one_direction(x, layer.firstVRNN, layer.stack_size[0]) and
\* layer.apply_one_direction(x, layer.secondHRNN, layer.stack_size[1]),
\* the two calls forward makes
ApplyOneDirection(k) ==
    /\ layer.err = ""
    /\ op = "none"
    /\ \E seed \in IF DropoutActive(layer) THEN Seeds ELSE {0} :
        \E r \in {apply_one_direction(layer, Input(x.id, x.shape),
                     IF k = 1 THEN layer.firstVRNN ELSE layer.secondHRNN,
                     layer.stack_size[k], seed)} :
            /\ op' = IF k = 1 THEN "apply_first" ELSE "apply_second"
            /\ ret' = r.out
            /\ hn' = <<r.hn>>
            /\ fed' = <<r.fed>>
            /\ drop' = DropoutActive(layer)
    /\ UNCHANGED <<args, layer, x, ref>>

ApplyFirst == ApplyOneDirection(1)

ApplySecond == ApplyOneDirection(2)

\* the caller takes the result and holds the next input
NewInput(t) ==
    /\ op # "none"
    /\ x' = t
    /\ op' = "none"
    /\ ret' = Error("none")
    /\ hn' = <<>>
    /\ fed' = <<>>
    /\ drop' = FALSE
    /\ UNCHANGED <<args, layer, ref>>

\* layer.train() and layer.eval(), inherited from nn.Module
Train ==
    /\ layer.err = ""
    /\ layer' = [layer EXCEPT !.training = TRUE]
    /\ UNCHANGED <<args, x, op, ret, hn, fed, drop, ref>>

Eval ==
    /\ layer.err = ""
    /\ layer' = [layer EXCEPT !.training = FALSE]
    /\ UNCHANGED <<args, x, op, ret, hn, fed, drop, ref>>

\* ------------------------------------------------------------------------
\* Specifications

\* construction from any arguments
InitConstruct ==
    /\ args \in CtorArgs
    /\ layer = NoLayer
    /\ x = NoInput
    /\ Idle

NextConstruct ==
    Construct

SpecConstruct == InitConstruct /\ [][NextConstruct]_vars

\* patch extraction (and the forward pass built on it) on any image
PatchArgs ==
    {a \in LayerArgs : /\ a.hidden_dim = 1
                       /\ a.rnn = "RNN"
                       /\ a.stack_size = <<1, 1>>
                       /\ a.dropout = 0}

InitPatches ==
    /\ args \in PatchArgs
    /\ layer = ReNetLayer(args)
    /\ x \in Images
    /\ Idle

NextPatches ==
    \/ GetValidPatches
    \/ Forward

SpecPatches == InitPatches /\ [][NextPatches]_vars

\* one forward pass of any one-channel layer on any image it is built
\* for: one channel, height and width multiples of the window
ForwardArgs ==
    {a \in LayerArgs : /\ a.channel_size = 1
                       /\ a.stack_size[1] <= MaxFwdStack
                       /\ a.stack_size[2] <= MaxFwdStack
                       /\ a.dropout = 0}

ForwardImages(a) ==
    {[id |-> 0, shape |-> <<b, a.channel_size, gh * a.window_size.v[1],
                            gw * a.window_size.v[1]>>] :
        b \in 1..MaxBatch, gh \in 1..MaxGrid, gw \in 1..MaxGrid}

Init ==
    /\ args \in ForwardArgs
    /\ layer = ReNetLayer(args)
    /\ x \in ForwardImages(args)
    /\ Idle

Next ==
    Forward

Spec == Init /\ [][Next]_vars

\* one recurrent sweep of any layer of window 1 and one channel on any
\* 4-D input (sweep axis, batch, other axis, features)
SweepArgs ==
    {a \in LayerArgs : /\ a.window_size = PyInt(1)
                       /\ a.channel_size = 1
                       /\ a.dropout = 0}

SweepInputs(self) ==
    {[id |-> 0, shape |-> <<s, b, o, f>>] :
        s \in 1..MaxGrid, b \in 1..MaxBatch, o \in 1..MaxGrid,
        f \in {self.firstVRNN.input_size, self.secondHRNN.input_size}}

InitSweep ==
    /\ args \in SweepArgs
    /\ layer = ReNetLayer(args)
    /\ x \in SweepInputs(layer)
    /\ Idle

NextSweep ==
    \/ ApplyFirst
    \/ ApplySecond

SpecSweep == InitSweep /\ [][NextSweep]_vars

\* repeated forward passes on one layer instance, both sweeps of the
\* same depth
RepeatArgs ==
    {a \in CtorArgs : /\ a.window_size = PyInt(1)
                      /\ a.hidden_dim = 1
                      /\ a.channel_size = 1
                      /\ a.bias
                      /\ a.stack_size[1] <= MaxRepStack
                      /\ a.stack_size[2] = a.stack_size[1]}

RepeatImages ==
    {[id |-> i, shape |-> <<1, 1, h, h>>] :
        i \in 0..1, h \in 1..MaxRepSide}

InitRepeat ==
    /\ args \in RepeatArgs
    /\ layer = ReNetLayer(args)
    /\ x \in RepeatImages
    /\ Idle

NextRepeat ==
    \/ Forward
    \/ \E t \in RepeatImages : NewInput(t)
    \/ Train
    \/ Eval

SpecRepeat == InitRepeat /\ [][NextRepeat]_vars

\* ------------------------------------------------------------------------
\* Properties

Batch == x.shape[1]
Channels == x.shape[2]
Height == x.shape[3]
Width == x.shape[4]
WH == layer.window_size[1].v[1]
WW == layer.window_size[2].v[1]

Divisible ==
    Height % WH = 0 /\ Width % WW = 0

\* the index, in the input x, of the entry a source stands for
SrcIndex(src) ==
    Unravel(x.shape, src % 1000)

\* the sources of the pixels of patch (i, j) of image b
PixelsOfPatch(b, i, j) ==
    {Src(x.id, x.shape, <<b, c, i * WH + r, j * WW + s>>) :
        c \in 0..(Channels - 1), r \in 0..(WH - 1), s \in 0..(WW - 1)}

\* the sources of the vector ret[b, :, i, j]
VectorSources(b, i, j) ==
    UNION {At(ret, <<b, k, i, j>>) : k \in 0..(ret.shape[2] - 1)}

\* C1: forward on an input (B, C, H, W) with C the layer's channel_size,
\* H a multiple of the window height and W of the window width returns,
\* for every rnn kind and stack size, a tensor of shape
\* (B, 2*hidden_dim, H/wh, W/ww).
C1_ShapeLaw ==
    (op = "forward" /\ Channels = args.channel_size /\ Divisible) =>
        /\ ~IsError(ret)
        /\ ret.shape = <<Batch, 2 * args.hidden_dim,
                         Height \div WH, Width \div WW>>
        /\ DOMAIN ret.data = Indices(ret.shape)

C1_Witness ==
    /\ op = "forward"
    /\ ~IsError(ret)
    /\ x.shape = <<2, 1, 4, 2>>
    /\ args.window_size = PyInt(2)
    /\ args.hidden_dim = 2
    /\ args.rnn = "LSTM"
    /\ args.stack_size = <<2, 1>>
    /\ ret.shape = <<2, 4, 2, 1>>

\* C4: a successful forward gives, at every patch position (i, j) of every
\* image b, a vector that depends on the pixels of every patch (i', j) of
\* the same patch column, first and last patch row included, and on no
\* pixel of another image of the batch.
C4_WholeAxisContext ==
    (op = "forward" /\ ~IsError(ret)) =>
        /\ ret.shape[1] = Batch
        /\ \A b \in 0..(Batch - 1), i \in 0..(ret.shape[3] - 1),
              j \in 0..(ret.shape[4] - 1) :
            LET sources == VectorSources(b, i, j)
            IN  /\ \A i2 \in 0..(ret.shape[3] - 1) :
                       PixelsOfPatch(b, i2, j) \subseteq sources
                /\ \A src \in sources :
                       src >= 0 => SrcIndex(src)[1] = b

C4_Witness ==
    /\ op = "forward"
    /\ ~IsError(ret)
    /\ Batch = 2
    /\ WH = 2
    /\ args.stack_size = <<1, 2>>
    /\ ret.shape[3] = 2
    /\ ret.shape[4] = 2
    /\ PixelsOfPatch(1, 0, 1) \subseteq VectorSources(1, 1, 1)
    /\ PixelsOfPatch(1, 1, 1) \subseteq VectorSources(1, 0, 1)
    /\ PixelsOfPatch(0, 0, 1) \cap VectorSources(1, 1, 1) = {}

\* the sources of the pixels that lie in the complete windows of image b
KeptPixels(b) ==
    {Src(x.id, x.shape, <<b, c, h, w>>) :
        c \in 0..(Channels - 1),
        h \in 0..((Height \div WH) * WH - 1),
        w \in 0..((Width \div WW) * WW - 1)}

\* ret is the grid of the complete windows of x: every feature f is the
\* pixel at one fixed (channel, row, column) offset of its window, and
\* distinct features are distinct offsets
IsPatchGrid ==
    /\ ~IsError(ret)
    /\ ret.shape = <<Batch, WH * WW * Channels,
                     Height \div WH, Width \div WW>>
    /\ \A f \in 0..(ret.shape[2] - 1) :
         \E c \in 0..(Channels - 1), r \in 0..(WH - 1), s \in 0..(WW - 1) :
           \A b \in 0..(Batch - 1), i \in 0..(ret.shape[3] - 1),
              j \in 0..(ret.shape[4] - 1) :
             At(ret, <<b, f, i, j>>) =
                 {Src(x.id, x.shape, <<b, c, i * WH + r, j * WW + s>>)}
    /\ \A f1, f2 \in 0..(ret.shape[2] - 1) :
         f1 # f2 => At(ret, <<0, f1, 0, 0>>) # At(ret, <<0, f2, 0, 0>>)

\* C5: on an input whose height and width are multiples of the window,
\* get_valid_patches returns shape (B, wh*ww*C, H/wh, W/ww) and the vector
\* at (b, :, i, j) holds exactly the pixels x[b, c, i*wh+r, j*ww+s], each
\* once and at the same feature position in every patch, so no pixel of
\* one patch reaches the vector of another.
C5_PatchPartition ==
    (op = "get_valid_patches" /\ Divisible) =>
        /\ IsPatchGrid
        /\ \A b \in 0..(Batch - 1), i \in 0..(ret.shape[3] - 1),
              j \in 0..(ret.shape[4] - 1) :
             VectorSources(b, i, j) = PixelsOfPatch(b, i, j)

C5_Witness ==
    /\ op = "get_valid_patches"
    /\ x.shape = <<2, 2, 4, 4>>
    /\ WH = 2
    /\ ret.shape = <<2, 8, 2, 2>>
    /\ At(ret, <<1, 7, 1, 0>>) = {Src(x.id, x.shape, <<1, 1, 3, 1>>)}

Swept == op \in {"apply_first", "apply_second"}

SweepRNN ==
    IF op = "apply_first" THEN layer.firstVRNN ELSE layer.secondHRNN

SweepStack ==
    IF op = "apply_first" THEN layer.stack_size[1] ELSE layer.stack_size[2]

\* the sources of the vector ret[s, b, o, :]
SweepSources(s, b, o) ==
    UNION {At(ret, <<s, b, o, k>>) : k \in 0..(ret.shape[4] - 1)}

\* the sources of the input vector x[s, b, o, :]
EntrySources(s, b, o) ==
    {Src(x.id, x.shape, <<s, b, o, f>>) : f \in 0..(x.shape[4] - 1)}

\* C3 as stated: the output of apply_one_direction at (s, b, o) depends
\* on the input at (s', b, o) for every position s' of the sweep axis and
\* on no input at another other-axis position or batch position.
C3_SweepAxisDependency ==
    (Swept /\ ~IsError(ret)) =>
        \A s \in 0..(x.shape[1] - 1), b \in 0..(x.shape[2] - 1),
           o \in 0..(x.shape[3] - 1) :
            SweepSources(s, b, o) =
                UNION {EntrySources(s2, b, o) : s2 \in 0..(x.shape[1] - 1)}

\* the result of the recurrent network on the single sequence
\* x[s, b, 0..O-1, :], from a zero initial state
SequenceResult(s, b) ==
    LET seq == MkTensor(<<1, x.shape[3], x.shape[4]>>,
                   LAMBDA idx :
                       {Src(x.id, x.shape, <<s, b, idx[2], idx[3]>>)})
        z == Zeros(<<2 * SweepStack, 1, layer.hidden_dim>>)
    IN  RNNForward(SweepRNN, seq,
                   IF layer.rnn_type = "LSTM" THEN <<z, z>> ELSE <<z>>,
                   layer.training, 0)

C7_InitHidden ==
    Swept =>
        /\ Len(hn) = 1
        /\ Len(hn[1]) = IF args.rnn = "LSTM" THEN 2 ELSE 1
        /\ \A i \in 1..Len(hn[1]) :
             /\ hn[1][i].shape =
                    <<2 * (IF op = "apply_first" THEN args.stack_size[1]
                           ELSE args.stack_size[2]),
                      fed[1].shape[1], args.hidden_dim>>
             /\ fed[1].shape[1] = x.shape[1] * x.shape[2]
             /\ DOMAIN hn[1][i].data = Indices(hn[1][i].shape)
             /\ \A idx \in DOMAIN hn[1][i].data : hn[1][i].data[idx] = {}

C7_Witness ==
    /\ op = "apply_second"
    /\ ~IsError(ret)
    /\ args.rnn = "LSTM"
    /\ args.stack_size = <<2, 3>>
    /\ x.shape[1] = 2
    /\ x.shape[2] = 2
    /\ Len(hn[1]) = 2
    /\ hn[1][2].shape = <<6, 4, args.hidden_dim>>

\* ---- construction

\* C8 as stated: the constructor accepts window_size as a single integer
\* or as a (height, width) tuple; construction succeeds and window_size
\* is a pair of integers (window_height, window_width), the first sweep's
\* input dimension being window_height * window_width * channel_size.
C8_WindowArgument ==
    op = "construct" =>
        /\ layer.err = ""
        /\ Len(layer.window_size) = 2
        /\ ~layer.window_size[1].tuple
        /\ ~layer.window_size[2].tuple
        /\ IF args.window_size.tuple
           THEN /\ layer.window_size[1].v[1] = args.window_size.v[1]
                /\ layer.window_size[2].v[1] = args.window_size.v[2]
           ELSE /\ layer.window_size[1].v[1] = args.window_size.v[1]
                /\ layer.window_size[2].v[1] = args.window_size.v[1]
        /\ layer.firstVRNN.input_size =
               layer.window_size[1].v[1] * layer.window_size[2].v[1]
                   * args.channel_size

\* the weight matrices a bidirectional network of `depth` layers has
WeightNames(depth) ==
    {<<"weight", m, LayerTok(l)>> \o sfx :
        m \in {"ih", "hh"}, l \in 0..(depth - 1),
        sfx \in {<<>>, <<"reverse">>}}

BiasNames(depth) ==
    {<<"bias", m, LayerTok(l)>> \o sfx :
        m \in {"ih", "hh"}, l \in 0..(depth - 1),
        sfx \in {<<>>, <<"reverse">>}}

\* how often the initialization function was applied to parameter `name`
InitCount(rnn, name) ==
    LET at == {<<g, j>> \in (1..Len(rnn.all_weights)) \X (1..4) :
                  /\ j <= Len(rnn.all_weights[g])
                  /\ rnn.all_weights[g][j] = name}
        counts == [e \in at |-> rnn.inits[e[1]][e[2]]]
    IN  IF at = {} THEN 0
        ELSE LET e == CHOOSE e \in at : TRUE
             IN  IF Cardinality(at) = 1 THEN counts[e] ELSE 0 - 1

InitializedOnce(rnn, depth) ==
    /\ \A name \in WeightNames(depth) : InitCount(rnn, name) = 1
    /\ \A name \in BiasNames(depth) : InitCount(rnn, name) = 0

\* C9: construction applies the initialization function exactly once to
\* the input-hidden and hidden-hidden matrix of every stacked layer and
\* direction of both sweeps, and to no bias vector.
C9_WeightInitCoverage ==
    (op = "construct" /\ layer.err = "") =>
        /\ InitializedOnce(layer.firstVRNN, args.stack_size[1])
        /\ InitializedOnce(layer.secondHRNN, args.stack_size[2])

C9_Witness ==
    /\ op = "construct"
    /\ layer.err = ""
    /\ args.stack_size = <<2, 3>>
    /\ args.bias
    /\ InitCount(layer.secondHRNN, <<"weight", "hh", "l2", "reverse">>) = 1
    /\ InitCount(layer.firstVRNN, <<"weight", "ih", "l1">>) = 1
    /\ layer.secondHRNN.inits[6] = <<1, 1, 0, 0>>

\* ---- repeated forward passes

\* C6 as stated: for every construction setting, dropout > 0 and stack
\* sizes > 1 included, a forward call with the same input as an earlier
\* forward call on the same layer returns the same output.
C6_AlwaysDeterministic ==
    (op = "forward" /\ ref.x = x) => ret = ref.out

\* every initial state created during the call is all zero
AllZeroState ==
    \A k \in 1..Len(hn) : \A i \in 1..Len(hn[k]) :
        \A idx \in DOMAIN hn[k][i].data : hn[k][i].data[idx] = {}

\* C6 as amended: two forward calls with the same input, both made while
\* no dropout mask is drawn (dropout = 0, or evaluation mode, or both
\* stack sizes 1), return the same output; every sweep of every call
\* starts from all-zero state, and the output is computed from the
\* entries of the call's own input (and the dropout draws) only.
C6_DeterministicWithoutDropout ==
    op = "forward" =>
        /\ (ref.x = x /\ ~drop /\ ~ref.drop) => ret = ref.out
        /\ Len(hn) = 2
        /\ AllZeroState
        /\ ~IsError(ret) =>
             \A idx \in DOMAIN ret.data : \A src \in ret.data[idx] :
                 \/ src < 0 /\ drop
                 \/ src >= 0 /\ src \div 1000 = x.id

C6_Witness ==
    /\ op = "forward"
    /\ ref.x = x
    /\ ~ref.drop
    /\ ~drop
    /\ args.dropout > 0
    /\ args.stack_size = <<2, 2>>
    /\ ~layer.training
    /\ ~IsError(ret)
    /\ ret = ref.out

====
